---- MODULE Spec2Model ----
(***************************************************************************)
(* Model of the Atmosic I2C controller driver, drivers/i2c/i2c_atm.c:      *)
(* the polled phase operations i2c_out_sync / i2c_in_sync, the message     *)
(* sequencers i2c_atm_write_msg / i2c_atm_read_msg, i2c_atm_transfer with  *)
(* its semaphore, and i2c_atm_configure / i2c_atm_set_speed.               *)
(*                                                                         *)
(* Threads are preemptible, so every register access of a phase and every  *)
(* semaphore operation is a step of its own.  The transaction unit is the  *)
(* environment: each read of TRANSACTION_STATUS may or may not show DONE.  *)
(***************************************************************************)
EXTENDS Integers, Sequences, FiniteSets, TLC

VARIABLES
    th,       \* per calling thread: the frame of the driver call it is in
    setup,    \* TRANSACTION_SETUP register
    outgoing, \* OUTGOING_DATA register
    clkctl,   \* CLOCK_CONTROL register (the CLKDIV field value written)
    dconfig,  \* data->config
    sem,      \* data->xfer_sem count
    bp,       \* at_clkrstgen_get_bp(): the bus reference clock, in Hz
    halted    \* the system took a fatal fault (undefined behaviour hit)

vars == <<th, setup, outgoing, clkctl, dconfig, sem, bp, halted>>

(***************************** bounds *************************************)
\* Longest message of the inputs.
MaxLen == 2
\* CONFIG_I2C_ATM_TIMEOUT, a Kconfig integer; small so that the ceiling is hit.
CONFIG_I2C_ATM_TIMEOUT == 1

\* Where the saturating counters stop counting.
PollCap == CONFIG_I2C_ATM_TIMEOUT + 3
JCap == MaxLen + 1
\* The log of a call keeps its first LogCap - 1 phases and its latest one.
LogCap == 2 * MaxLen + 4

(***************************** constants **********************************)
I2C_HEAD_START == 0
I2C_HEAD_STALL == 1
I2C_WRITE == 0
I2C_READ == 1
I2C_ACK == 0
I2C_NACK == 1
I2C_TAIL_STOP == 0
I2C_TAIL_STALL == 1
I2C_TAIL_RESTART == 2

\* zephyr/drivers/i2c.h message flags and configuration word bits
I2C_MSG_WRITE == 0
I2C_MSG_READ == 1
I2C_MSG_RW_MASK == 1
I2C_MSG_STOP == 2
I2C_MSG_RESTART == 4
I2C_ADDR_10_BITS == 1
I2C_MODE_CONTROLLER == 16
I2C_SPEED_STANDARD == 1
I2C_SPEED_FAST == 2
I2C_SPEED_FAST_PLUS == 3
I2C_SPEED_HIGH == 4
I2C_SPEED_ULTRA == 5

\* errno values
EIO == 5
EINVAL == 22
ENOTSUP == 134

\* k_sem_init(&data->xfer_sem, 1, 1)
XferSemInit == 1
XferSemLimit == 1

\* DT_INST_PROP(n, sda_pullup)
SdaPullup == TRUE

(***************************** arithmetic *********************************)
Mod8(x) == x % 256

\* A uint32_t value as two 16-bit halves (TLC's integers are 32-bit
\* signed, so 2^32 - 1 is written [hi |-> 65535, lo |-> 65535]).
Word(x) == [hi |-> x \div 65536, lo |-> x % 65536]
WordMax == [hi |-> 65535, lo |-> 65535]
\* q - 1 in uint32_t arithmetic, for 0 <= q < 2^31
USubOne(q) == IF q = 0 THEN WordMax ELSE Word(q - 1)
\* hertz * 4 in uint32_t arithmetic, for hertz % 2^30 < 2^29
UMulFour(hertz) == (hertz % (2^30)) * 4

\* w & b # 0 for a single-bit mask b
BitSet(w, b) == (w \div b) % 2 = 1

\* I2C_SPEED_GET(cfg): (cfg & I2C_SPEED_MASK) >> I2C_SPEED_SHIFT
I2C_SPEED_GET(cfg) == (cfg \div 2) % 8

KHZ(x) == x * 1000
MHZ(x) == x * 1000000

\* (addr << 1) | rw, passed as the uint8_t val of i2c_out_sync
AddrByte(addr, rw) == Mod8(addr * 2 + rw)

(***************************** registers **********************************)
\* TRANSACTION_SETUP fields; the build modelled is the one whose register
\* layout has the MSTR bit (I2C_TRANSACTION_SETUP__MSTR__MASK defined)
SetupReg(go, ackv, mda, mstr, tail, head) ==
    [go |-> go, ackv |-> ackv, mda |-> mda, mstr |-> mstr, tail |-> tail,
     head |-> head]

\* config->base->TRANSACTION_SETUP = 0
SetupZero == SetupReg(0, 0, 0, 0, 0, 0)

\* (mutant) the write after the poll loop leaves GO set
SetupDeassert_GoKept == SetupReg(1, 0, 0, 1, 0, 0)

\* "Deassert GO": MSTR__WRITE(1) | GO__WRITE(0)
SetupDeassert == SetupReg(0, 0, 0, 1, 0, 0)

\* "Assert GO" of i2c_out_sync / i2c_in_sync for phase ph
SetupAssert(ph) == SetupReg(1, ph.ack, ph.mda, 1, ph.tail, ph.head)

\* OUTGOING_DATA as i2c_out_sync writes it: DATA_PU, DATA_OE = ~val, DATA_O = val
OutData(val) == [pu |-> SdaPullup, oe |-> 255 - val, o |-> val]
\* OUTGOING_DATA as i2c_in_sync writes it
InData == [pu |-> SdaPullup, oe |-> 0, o |-> 0]

(***************************** phases *************************************)
\* What one call of i2c_out_sync / i2c_in_sync programs.
OutPhase(head, val, tail) ==
    [kind |-> "out", head |-> head, val |-> val, ack |-> 1, mda |-> 0, tail |-> tail]
InPhase(ack, tail) ==
    [kind |-> "in", head |-> I2C_HEAD_STALL, val |-> 0, ack |-> ack, mda |-> 1, tail |-> tail]
NoPhase == OutPhase(0, 0, 0)

\* The timeout test of the poll loop body: if (i++ > CONFIG_I2C_ATM_TIMEOUT).
\* i2c_out_sync declares "int i = 0" inside the loop body, i2c_in_sync before
\* the loop.
OutSyncTimedOut == LET i == 0 IN i > CONFIG_I2C_ATM_TIMEOUT
InSyncTimedOut(i) == i > CONFIG_I2C_ATM_TIMEOUT

(***************************** thread frames ******************************)
Msg(f, n, b) == [flags |-> f, len |-> n, buf |-> b]

IdleRec ==
    [pc |-> "idle", op |-> "none",
     msgs |-> <<>>, addr |-> 0, i |-> 0, j |-> 0, stage |-> "none", ret |-> 0,
     ph |-> NoPhase, cnt |-> 0, polls |-> 0, log |-> <<>>, gives |-> 0,
     timedOut |-> FALSE, st |-> [done |-> FALSE, nack |-> FALSE], tick |-> 0,
     takes |-> 0, rx |-> <<>>,
     cfg |-> 0, speed |-> 0, pinned |-> FALSE, wroteClk |-> FALSE,
     clkVal |-> Word(0), was |-> [config |-> 0, clk |-> Word(0)]]

\* The value an out-of-bounds read faults on.
Fault == -1

Inc(x, cap) == IF x < cap THEN x + 1 ELSE cap

\* The log with one more phase.
Logged(log, e) ==
    IF Len(log) < LogCap THEN Append(log, e)
    ELSE [log EXCEPT ![LogCap] = e]

\* s with the next phase to issue
IssuePhase(s, stage, j, ph) ==
    [s EXCEPT !.pc = "go", !.stage = stage, !.j = j, !.ph = ph]

\* (mutant) no break: the loop goes on to the next message after an error
MsgReturn_NoBreak(s, r) ==
    [s EXCEPT !.pc = "loop", !.ret = r, !.i = @ + 1, !.stage = "none", !.j = 0]

\* (mutant) an error returns from i2c_atm_transfer at once, past k_sem_give
MsgReturn_EarlyReturn(s, r) ==
    IF r < 0
    THEN [s EXCEPT !.pc = "done", !.ret = r, !.stage = "none", !.j = 0]
    ELSE [s EXCEPT !.pc = "loop", !.ret = r, !.i = @ + 1, !.stage = "none", !.j = 0]

\* The message sequencer returned r to the loop of i2c_atm_transfer:
\* ret = r; if (ret < 0) break; else i++.
MsgReturn(s, r) ==
    IF r < 0
    THEN [s EXCEPT !.pc = "give", !.ret = r, !.stage = "none", !.j = 0]
    ELSE [s EXCEPT !.pc = "loop", !.ret = r, !.i = @ + 1, !.stage = "none", !.j = 0]

\* msg.buf[k]; a read past the message's len bytes yields u.oob
BufRead(msg, k, u) == IF k < msg.len THEN msg.buf[k + 1] ELSE u.oob

\* msg.buf[msg.len - 1]; with len = 0 the index is 2^32 - 1
BufReadLast(msg, u) == IF msg.len # 0 THEN msg.buf[msg.len] ELSE u.oob

\* (mutant) the last write always keeps the bus
WriteTail_AlwaysStall(msg) == I2C_TAIL_STALL

\* stop ? I2C_TAIL_STOP : I2C_TAIL_STALL of the last write
WriteTail(msg) ==
    IF BitSet(msg.flags, I2C_MSG_STOP) THEN I2C_TAIL_STOP ELSE I2C_TAIL_STALL

\* (mutant) the last read always releases the bus
ReadTail_AlwaysStop(msg) == I2C_TAIL_STOP

\* stop ? I2C_TAIL_STOP : I2C_TAIL_RESTART of the last read
ReadTail(msg) ==
    IF BitSet(msg.flags, I2C_MSG_STOP) THEN I2C_TAIL_STOP ELSE I2C_TAIL_RESTART

\* i < msg.len - 1 with int i against uint32_t msg.len: the comparison is
\* unsigned, so len = 0 gives the bound 2^32 - 1.  j = JCap stands for every
\* index from JCap on; from there the loop goes on or has reached its bound.
WriteLoopGoesOn(msg, j, u) ==
    IF msg.len # 0 THEN j < msg.len - 1
    ELSE IF j < JCap THEN TRUE
    ELSE ~u.exit

\* The payload loop and the last write of i2c_atm_write_msg, at index j.
WriteLoop(s, msg, j, u) ==
    IF WriteLoopGoesOn(msg, j, u)
    THEN IssuePhase(s, "wbody", j,
             OutPhase(I2C_HEAD_STALL, BufRead(msg, j, u), I2C_TAIL_STALL))
    ELSE IssuePhase(s, "wlast", j,
             OutPhase(I2C_HEAD_STALL, BufReadLast(msg, u), WriteTail(msg)))

\* (mutant) no length validation
WriteInvalid_Never(msg) == FALSE

\* !msg.len && (msg.flags != I2C_MSG_STOP)
WriteInvalid(msg) == msg.len = 0 /\ msg.flags # I2C_MSG_STOP

\* (mutant) every write message sends the address byte, whatever its index
i2c_atm_write_msg_AlwaysAddr(s, msg, idx, u) ==
    IF WriteInvalid(msg) THEN MsgReturn(s, -EINVAL)
    ELSE IssuePhase(s, "waddr", 0,
             OutPhase(I2C_HEAD_START, AddrByte(s.addr, I2C_WRITE),
                      IF msg.len # 0 THEN I2C_TAIL_STALL ELSE I2C_TAIL_STOP))

\* Entry of i2c_atm_write_msg(dev, addr, msg, msg_idx).
i2c_atm_write_msg(s, msg, idx, u) ==
    IF WriteInvalid(msg) THEN MsgReturn(s, -EINVAL)
    ELSE IF idx = 0
    THEN IssuePhase(s, "waddr", 0,
             OutPhase(I2C_HEAD_START, AddrByte(s.addr, I2C_WRITE),
                      IF msg.len # 0 THEN I2C_TAIL_STALL ELSE I2C_TAIL_STOP))
    ELSE WriteLoop(s, msg, 0, u)

\* (mutant) the latch loop runs over every byte: i < msg.len
ReadLoopGoesOn_AllBytes(msg, j) == j < msg.len

\* for (int i = 0; i < msg.len - 1; i++) of i2c_atm_read_msg, len >= 1
ReadLoopGoesOn(msg, j) == j < msg.len - 1

\* The latch loop and the last read of i2c_atm_read_msg, at index j.
ReadLoop(s, msg, j) ==
    IF ReadLoopGoesOn(msg, j)
    THEN IssuePhase(s, "rbody", j, InPhase(I2C_ACK, I2C_TAIL_STALL))
    ELSE IssuePhase(s, "rlast", j, InPhase(I2C_NACK, ReadTail(msg)))

\* !msg.len
ReadInvalid(msg) == msg.len = 0

\* (mutant) the address phase of a read continues the bus, head STALL
i2c_atm_read_msg_HeadStall(s, msg) ==
    IF msg.len = 0 THEN MsgReturn(s, -EINVAL)
    ELSE IssuePhase(s, "raddr", 0,
             OutPhase(I2C_HEAD_STALL, AddrByte(s.addr, I2C_READ), I2C_TAIL_STALL))

\* Entry of i2c_atm_read_msg(dev, addr, msg).
i2c_atm_read_msg(s, msg) ==
    IF ReadInvalid(msg) THEN MsgReturn(s, -EINVAL)
    ELSE IssuePhase(s, "raddr", 0,
             OutPhase(I2C_HEAD_START, AddrByte(s.addr, I2C_READ), I2C_TAIL_STALL))

\* (mutant) the latched byte is dropped
StoreByte_None(s, k, val) == s

\* msg.buf[k] = val
StoreByte(s, k, val) == [s EXCEPT !.msgs[s.i + 1].buf[k + 1] = val]

\* The sequencer after the phase it issued returned r.
AfterPhase(s, r, u) ==
    LET msg == s.msgs[s.i + 1] IN
    CASE s.stage = "waddr" ->
           IF r < 0 THEN MsgReturn(s, r)
           ELSE IF msg.len = 0 THEN MsgReturn(s, r)
           ELSE WriteLoop(s, msg, 0, u)
      [] s.stage = "wbody" ->
           IF r < 0 THEN MsgReturn(s, r)
           ELSE WriteLoop(s, msg, Inc(s.j, JCap), u)
      [] s.stage = "wlast" -> MsgReturn(s, r)
      [] s.stage = "raddr" ->
           IF r < 0 THEN MsgReturn(s, r) ELSE ReadLoop(s, msg, 0)
      [] s.stage = "rbody" ->
           IF r < 0 THEN MsgReturn(s, r)
           ELSE ReadLoop(StoreByte(s, s.j, r), msg, s.j + 1)
      [] s.stage = "rlast" ->
           IF r < 0 THEN MsgReturn(s, r)
           ELSE MsgReturn(StoreByte(s, msg.len - 1, r), 0)

\* The thread's frame becomes n, unless n issues a byte whose read faulted.
Commit(t, n) ==
    IF n.pc = "go" /\ n.ph.val = Fault
    THEN /\ halted' = TRUE
         /\ th' = [th EXCEPT ![t].pc = "fault"]
    ELSE /\ th' = [th EXCEPT ![t] = n]
         /\ UNCHANGED halted

(***************************** inputs *************************************)
\* The bytes a caller's write buffer holds, and the fill of a read buffer.
WriteBuf(n) == [k \in 1..n |-> 16 * (k - 1)]
ReadBuf(n) == [k \in 1..n |-> 238]

WriteFlags ==
    {I2C_MSG_WRITE, I2C_MSG_STOP, I2C_MSG_RESTART, I2C_MSG_STOP + I2C_MSG_RESTART}
ReadFlags ==
    {I2C_MSG_READ, I2C_MSG_READ + I2C_MSG_STOP,
     I2C_MSG_READ + I2C_MSG_STOP + I2C_MSG_RESTART}

Msgs ==
    {Msg(f, n, WriteBuf(n)) : f \in WriteFlags, n \in 0..MaxLen}
    \cup {Msg(f, n, ReadBuf(n)) : f \in ReadFlags, n \in 0..MaxLen}

\* Every list of at most two messages.
MsgLists ==
    {<<>>} \cup {<<m>> : m \in Msgs} \cup {<<m1, m2>> : m1 \in Msgs, m2 \in Msgs}

\* A few lists, for the runs with several callers.
FewLists ==
    { <<Msg(I2C_MSG_WRITE, 1, WriteBuf(1)),
        Msg(I2C_MSG_READ + I2C_MSG_STOP, 1, ReadBuf(1))>>,
      <<Msg(I2C_MSG_READ + I2C_MSG_STOP, 2, ReadBuf(2))>>,
      <<Msg(I2C_MSG_WRITE, 0, WriteBuf(0))>> }

Addrs == {80, 42}
OneAddr == {80}

\* Bytes the peer sends, and bytes an out-of-bounds read of memory yields
\* (or the read faults).
InVals == {90, 165}
OobVals == {0, Fault}
Choices == [oob : OobVals, exit : BOOLEAN]

\* Configuration words: controller mode at standard speed with and without
\* 10-bit addressing, peripheral mode, controller mode at high speed.
FewCfgs ==
    { I2C_MODE_CONTROLLER + 2 * I2C_SPEED_STANDARD,
      I2C_MODE_CONTROLLER + 2 * I2C_SPEED_STANDARD + I2C_ADDR_10_BITS,
      2 * I2C_SPEED_FAST,
      I2C_MODE_CONTROLLER + 2 * I2C_SPEED_HIGH }
AllCfgs == 0..31

RefClocks == {1000000, 16000000, 32000000}

(***************************** set_speed **********************************)
\* static uint32_t const s2f_tbl[]; index 0 is not named and so 0
s2f_tbl(speed) ==
    CASE speed = I2C_SPEED_STANDARD -> KHZ(100)
      [] speed = I2C_SPEED_FAST -> KHZ(400)
      [] speed = I2C_SPEED_FAST_PLUS -> MHZ(1)
      [] speed = I2C_SPEED_HIGH -> 0
      [] speed = I2C_SPEED_ULTRA -> 0
      [] OTHER -> 0

\* s2f_tbl[speed]: the table has I2C_SPEED_ULTRA + 1 entries; an index past
\* it reads whatever word follows the table.
TableRead(speed) ==
    IF speed <= I2C_SPEED_ULTRA THEN {s2f_tbl(speed)} ELSE {0, KHZ(100), 2^30}

\* (mutant) the divider without the - 1
ClkDiv_NoMinusOne(ref, hertz) == Word(ref \div UMulFour(hertz))

\* (at_clkrstgen_get_bp() / (hertz * 4)) - 1, in uint32_t arithmetic
ClkDiv(ref, hertz) == USubOne(ref \div UMulFour(hertz))

(***************************** initial state ******************************)
\* The state i2c_atm_init leaves: the semaphore free, and the configuration
\* i2c_atm_configure(dev, config->mode | bitrate) stored and programmed, for a
\* devicetree clock-frequency of standard speed.
InitCfg == I2C_MODE_CONTROLLER + 2 * I2C_SPEED_STANDARD

InitOf(threads, refs) ==
    /\ th = [t \in threads |-> IdleRec]
    /\ setup = SetupZero
    /\ outgoing = [pu |-> FALSE, oe |-> 0, o |-> 0]
    /\ bp \in refs
    /\ clkctl = ClkDiv(bp, s2f_tbl(I2C_SPEED_GET(InitCfg)))
    /\ dconfig = InitCfg
    /\ sem = XferSemInit
    /\ halted = FALSE

(***************************** transfer ***********************************)
\* Thread t is at pc, and the system has not halted on a fault.
At(t, pc) == ~halted /\ th[t].pc = pc

\* (mutant) no 10-bit check: every call goes on to k_sem_take
i2c_atm_transfer_NoCheck(t, lists, addrs) ==
    /\ ~halted /\ th[t].pc = "idle"
    /\ \E ms \in lists, a \in addrs :
         th' = [th EXCEPT ![t] =
                  [IdleRec EXCEPT !.op = "transfer", !.msgs = ms, !.addr = a,
                                  !.pc = "take"]]
    /\ UNCHANGED <<setup, outgoing, clkctl, dconfig, sem, bp, halted>>

\* i2c_atm_transfer up to k_sem_take: the 10-bit check on data->config.
i2c_atm_transfer(t, lists, addrs) ==
    /\ At(t, "idle")
    /\ \E ms \in lists, a \in addrs :
         LET s == [IdleRec EXCEPT !.op = "transfer", !.msgs = ms, !.addr = a] IN
         th' = [th EXCEPT ![t] =
                  IF BitSet(dconfig, I2C_ADDR_10_BITS)
                  THEN [s EXCEPT !.pc = "done", !.ret = -ENOTSUP]
                  ELSE [s EXCEPT !.pc = "take"]]
    /\ UNCHANGED <<setup, outgoing, clkctl, dconfig, sem, bp, halted>>

\* (mutant) the take leaves the count as it was
SemAfterTake_Kept(c) == c

\* The count of a semaphore a thread has taken
SemAfterTake(c) == c - 1

\* k_sem_take(&data->xfer_sem, K_FOREVER), then int ret = 0 and i = 0
k_sem_take(t) ==
    /\ At(t, "take")
    /\ sem > 0
    /\ sem' = SemAfterTake(sem)
    /\ th' = [th EXCEPT ![t].pc = "loop", ![t].i = 0, ![t].ret = 0,
                        ![t].takes = @ + 1]
    /\ UNCHANGED <<setup, outgoing, clkctl, dconfig, bp, halted>>

\* (msgs[i].flags & I2C_MSG_RW_MASK) == I2C_MSG_WRITE
IsWrite(msg) == msg.flags % (2 * I2C_MSG_RW_MASK) = I2C_MSG_WRITE

\* The body of the loop of i2c_atm_transfer up to the first register access
\* of message i.
Dispatch(s, u) ==
    LET msg == s.msgs[s.i + 1] IN
    IF IsWrite(msg) THEN i2c_atm_write_msg(s, msg, s.i, u)
    ELSE i2c_atm_read_msg(s, msg)

\* for (uint8_t i = 0; i < num_msgs; i++)
transfer_loop(t) ==
    /\ At(t, "loop")
    /\ IF th[t].i < Len(th[t].msgs)
       THEN \E u \in Choices : Commit(t, Dispatch(th[t], u))
       ELSE /\ th' = [th EXCEPT ![t].pc = "give"]
            /\ UNCHANGED halted
    /\ UNCHANGED <<setup, outgoing, clkctl, dconfig, sem, bp>>

\* The head of i2c_out_sync / i2c_in_sync: OUTGOING_DATA, then "Assert GO".
i2c_sync_go(t) ==
    LET s == th[t] IN
    /\ At(t, "go")
    /\ outgoing' = IF s.ph.kind = "out" THEN OutData(s.ph.val) ELSE InData
    /\ setup' = SetupAssert(s.ph)
    /\ th' = [th EXCEPT ![t] =
                [s EXCEPT !.pc = "poll", !.cnt = 0, !.polls = 0,
                          !.timedOut = FALSE,
                          !.st = [done |-> FALSE, nack |-> FALSE],
                          !.log = Logged(@, [m |-> s.i, kind |-> s.ph.kind,
                                             head |-> s.ph.head, val |-> s.ph.val,
                                             ack |-> s.ph.ack, tail |-> s.ph.tail])]]
    /\ UNCHANGED <<clkctl, dconfig, sem, bp, halted>>

\* One read of TRANSACTION_STATUS by the loop of i2c_out_sync, and what
\* follows it: the loop body, or the ACK test and "Deassert GO".
i2c_out_sync_poll(t) ==
    LET s == th[t] IN
    /\ At(t, "poll")
    /\ s.ph.kind = "out"
    /\ \E done \in BOOLEAN, nack \in BOOLEAN, u \in Choices :
         IF done
         THEN /\ setup' = SetupDeassert
              /\ Commit(t, AfterPhase([s EXCEPT !.st = [done |-> TRUE, nack |-> nack]],
                                      IF nack THEN -EIO ELSE 0, u))
         ELSE IF OutSyncTimedOut
         THEN /\ setup' = SetupZero
              /\ Commit(t, AfterPhase([s EXCEPT !.timedOut = TRUE], -EIO, u))
         ELSE /\ th' = [th EXCEPT ![t].polls = Inc(@, PollCap),
                                  ![t].tick = 1 - @]
              /\ UNCHANGED <<setup, halted>>
    /\ UNCHANGED <<outgoing, clkctl, dconfig, sem, bp>>

\* One read of TRANSACTION_STATUS by the loop of i2c_in_sync, and what
\* follows it: the loop body, or INCOMING_DATA and "Deassert GO".
i2c_in_sync_poll(t) ==
    LET s == th[t] IN
    /\ At(t, "poll")
    /\ s.ph.kind = "in"
    /\ \E done \in BOOLEAN, v \in InVals, u \in Choices :
         IF done
         THEN /\ setup' = SetupDeassert
              /\ Commit(t, AfterPhase([s EXCEPT !.st = [done |-> TRUE, nack |-> FALSE],
                                                !.rx = Append(@, [m |-> s.i, val |-> v])],
                                      v, u))
         ELSE IF InSyncTimedOut(s.cnt)
         THEN /\ setup' = SetupZero
              /\ Commit(t, AfterPhase([s EXCEPT !.timedOut = TRUE], -EIO, u))
         ELSE /\ th' = [th EXCEPT ![t].cnt = @ + 1, ![t].polls = Inc(@, PollCap),
                                  ![t].tick = 1 - @]
              /\ UNCHANGED <<setup, halted>>
    /\ UNCHANGED <<outgoing, clkctl, dconfig, sem, bp>>

\* k_sem_give(&data->xfer_sem)
k_sem_give(t) ==
    /\ At(t, "give")
    /\ sem' = IF sem < XferSemLimit THEN sem + 1 ELSE sem
    /\ th' = [th EXCEPT ![t].pc = "done", ![t].gives = @ + 1]
    /\ UNCHANGED <<setup, outgoing, clkctl, dconfig, bp, halted>>

\* return ret, of i2c_atm_transfer and of i2c_atm_configure
api_return(t) ==
    /\ At(t, "done")
    /\ th' = [th EXCEPT ![t] = IdleRec]
    /\ UNCHANGED <<setup, outgoing, clkctl, dconfig, sem, bp, halted>>

(***************************** configure **********************************)
\* (mutant) the configuration word is stored and the pins set up before the
\* mode is looked at
i2c_atm_configure_StoreFirst(t, cfgs) ==
    /\ ~halted /\ th[t].pc = "idle"
    /\ \E cfg \in cfgs :
         LET s == [IdleRec EXCEPT !.op = "configure", !.cfg = cfg,
                                  !.was = [config |-> dconfig, clk |-> clkctl],
                                  !.pinned = TRUE] IN
         /\ dconfig' = cfg
         /\ th' = [th EXCEPT ![t] =
                     IF ~BitSet(cfg, I2C_MODE_CONTROLLER)
                     THEN [s EXCEPT !.pc = "done", !.ret = -ENOTSUP]
                     ELSE [s EXCEPT !.pc = "speed",
                                    !.speed = I2C_SPEED_GET(cfg)]]
    /\ UNCHANGED <<setup, outgoing, clkctl, sem, bp, halted>>

\* i2c_atm_configure up to the call of i2c_atm_set_speed; the frame notes
\* data->config and CLOCK_CONTROL as the call found them
i2c_atm_configure(t, cfgs) ==
    /\ At(t, "idle")
    /\ \E cfg \in cfgs :
         LET s == [IdleRec EXCEPT !.op = "configure", !.cfg = cfg,
                                  !.was = [config |-> dconfig, clk |-> clkctl]] IN
         IF ~BitSet(cfg, I2C_MODE_CONTROLLER)
         THEN /\ th' = [th EXCEPT ![t] = [s EXCEPT !.pc = "done", !.ret = -ENOTSUP]]
              /\ UNCHANGED dconfig
         ELSE /\ dconfig' = cfg
              /\ th' = [th EXCEPT ![t] =
                          [s EXCEPT !.pc = "speed", !.pinned = TRUE,
                                    !.speed = I2C_SPEED_GET(cfg)]]
    /\ UNCHANGED <<setup, outgoing, clkctl, sem, bp, halted>>

\* i2c_atm_set_speed(dev, speed)
i2c_atm_set_speed(t) ==
    LET s == th[t] IN
    /\ At(t, "speed")
    /\ \E hertz \in TableRead(s.speed) :
         IF hertz = 0
         THEN /\ th' = [th EXCEPT ![t].pc = "done", ![t].ret = -ENOTSUP]
              /\ UNCHANGED <<clkctl, halted>>
         ELSE IF UMulFour(hertz) = 0
         THEN /\ halted' = TRUE
              /\ th' = [th EXCEPT ![t].pc = "fault"]
              /\ UNCHANGED clkctl
         ELSE /\ clkctl' = ClkDiv(bp, hertz)
              /\ th' = [th EXCEPT ![t].pc = "done", ![t].ret = 0,
                                  ![t].wroteClk = TRUE,
                                  ![t].clkVal = ClkDiv(bp, hertz)]
              /\ UNCHANGED halted
    /\ UNCHANGED <<setup, outgoing, dconfig, sem, bp>>

(***************************** specifications *****************************)
\* Two callers, a few message lists and configuration words.
Threads == {1, 2}
Solo == {1}
Init == InitOf(Threads, {16000000})
Next ==
    \E t \in Threads :
        \/ i2c_atm_transfer(t, FewLists, OneAddr)
        \/ k_sem_take(t)
        \/ transfer_loop(t)
        \/ i2c_sync_go(t)
        \/ i2c_out_sync_poll(t)
        \/ i2c_in_sync_poll(t)
        \/ k_sem_give(t)
        \/ api_return(t)
        \/ i2c_atm_configure(t, FewCfgs)
        \/ i2c_atm_set_speed(t)
Spec == Init /\ [][Next]_vars

\* One caller, every list of at most two messages.
InitSeq == InitOf(Solo, {16000000})
NextSeq ==
    \E t \in Solo :
        \/ i2c_atm_transfer(t, MsgLists, Addrs)
        \/ k_sem_take(t)
        \/ transfer_loop(t)
        \/ i2c_sync_go(t)
        \/ i2c_out_sync_poll(t)
        \/ i2c_in_sync_poll(t)
        \/ k_sem_give(t)
        \/ api_return(t)
        \/ i2c_atm_configure(t, FewCfgs)
        \/ i2c_atm_set_speed(t)
SpecSeq == InitSeq /\ [][NextSeq]_vars

\* One caller, every configuration word and several reference clocks.
InitCfgs == InitOf(Solo, RefClocks)
NextCfg ==
    \E t \in Solo :
        \/ i2c_atm_transfer(t, FewLists, OneAddr)
        \/ k_sem_take(t)
        \/ transfer_loop(t)
        \/ i2c_sync_go(t)
        \/ i2c_out_sync_poll(t)
        \/ i2c_in_sync_poll(t)
        \/ k_sem_give(t)
        \/ api_return(t)
        \/ i2c_atm_configure(t, AllCfgs)
        \/ i2c_atm_set_speed(t)
SpecCfg == InitCfgs /\ [][NextCfg]_vars

\* Scheduling: a thread that can take a step of its call is eventually run
\* (the poll loops yield, the semaphore wakes its waiters); nothing is
\* assumed of the transaction unit, whose status may never show DONE.
CallStep(t) ==
    \/ transfer_loop(t)
    \/ i2c_sync_go(t)
    \/ i2c_out_sync_poll(t)
    \/ i2c_in_sync_poll(t)
    \/ k_sem_give(t)
    \/ api_return(t)
    \/ i2c_atm_set_speed(t)
Fairness == \A t \in Threads : WF_vars(CallStep(t)) /\ SF_vars(k_sem_take(t))
FairSpec == Init /\ [][Next]_vars /\ Fairness

(***************************** properties *********************************)
Transfers == {t \in DOMAIN th : th[t].op = "transfer"}
\* Between k_sem_take and k_sem_give
InCS(t) == th[t].pc \in {"loop", "go", "poll", "give"}
\* The latest phase of t ended in a timeout, or in a NACK of a byte it drove.
PhaseFailed(t) == th[t].timedOut \/ (th[t].st.done /\ th[t].st.nack)
Last(q) == q[Len(q)]

\* C1: a phase whose status never reports completion, drive or latch, makes
\* exactly CONFIG_I2C_ATM_TIMEOUT + 1 poll iterations, then writes 0 to the
\* setup register and returns the I/O error: no phase is ever past its
\* CONFIG_I2C_ATM_TIMEOUT + 1 iterations, and one that timed out made exactly
\* that many, left the setup register 0 and returned -EIO.
C1_PhaseTimesOutAtCeiling ==
    \A t \in DOMAIN th :
        /\ th[t].pc = "poll" => th[t].polls <= CONFIG_I2C_ATM_TIMEOUT + 1
        /\ th[t].pc = "give" /\ th[t].timedOut =>
              /\ th[t].polls = CONFIG_I2C_ATM_TIMEOUT + 1
              /\ setup = SetupZero
              /\ th[t].ret = -EIO

\* The half of C1 about the latch phase alone (i2c_in_sync), which holds.
InSyncTimesOutAtCeiling ==
    \A t \in DOMAIN th :
        /\ th[t].pc = "poll" /\ th[t].ph.kind = "in" =>
              th[t].polls <= CONFIG_I2C_ATM_TIMEOUT + 1
        /\ th[t].pc = "give" /\ th[t].timedOut =>
              /\ th[t].ph.kind = "in"
              /\ th[t].polls = CONFIG_I2C_ATM_TIMEOUT + 1
              /\ setup = SetupZero
              /\ th[t].ret = -EIO
InSyncTimedOutReached ==
    \E t \in DOMAIN th : th[t].pc = "give" /\ th[t].timedOut

\* C2: under fair scheduling and whatever the status register does, every
\* transfer that acquired the exclusion lock eventually releases it and
\* returns.
C2_TransferReleasesLock ==
    \A t \in Threads : InCS(t) ~> (th[t].pc = "done")

\* C3 as stated: every call of transfer has released the exclusion lock
\* exactly once when it returns, on every exit path.
C3_ReleasedOnceOnEveryExit ==
    \A t \in Transfers : th[t].pc = "done" => th[t].gives = 1

\* C3 amended: a call rejected by the 10-bit check returns -ENOTSUP having
\* neither taken nor released the lock; every other call took it once and
\* has released it exactly once when it returns (success, error in the
\* middle of a message, validation error), and not before k_sem_give.
C3_ReleasedOnceIfTaken ==
    \A t \in Transfers :
        /\ th[t].pc = "done" =>
              \/ th[t].ret = -ENOTSUP /\ th[t].takes = 0 /\ th[t].gives = 0
              \/ th[t].ret # -ENOTSUP /\ th[t].takes = 1 /\ th[t].gives = 1
        /\ th[t].pc # "done" => th[t].gives = 0

\* C3 witness: a transfer returned the error of a phase in the middle of a
\* message having released the lock once.
C3_Witness ==
    \E t \in Transfers :
        /\ th[t].pc = "done" /\ th[t].ret = -EIO /\ th[t].gives = 1
        /\ Len(th[t].log) > 1

\* C4: at most one transfer is between lock acquisition and lock release,
\* and the registers of a phase in flight are those its transfer programmed:
\* no phase of another transfer has come between.
C4_OneTransferAtATime ==
    /\ \A t, u \in DOMAIN th : InCS(t) /\ InCS(u) => t = u
    /\ \A t \in DOMAIN th :
          th[t].pc = "poll" =>
              /\ setup = SetupAssert(th[t].ph)
              /\ outgoing = IF th[t].ph.kind = "out" THEN OutData(th[t].ph.val)
                            ELSE InData

\* C4 witness: one caller polls a phase while another is blocked on the lock.
C4_Witness ==
    \E t, u \in DOMAIN th :
        /\ th[t].pc = "poll" /\ th[t].i = 1
        /\ th[u].pc = "take" /\ sem = 0

\* What a phase leaves in the log of its call.
Entry(m, kind, head, val, ack, tail) ==
    [m |-> m, kind |-> kind, head |-> head, val |-> val, ack |-> ack,
     tail |-> tail]
\* The phases message k (from 0) of t's call has issued.
PhasesOf(t, k) == SelectSeq(th[t].log, LAMBDA e : e.m = k)
HasStop(msg) == (msg.flags \div 2) % 2 = 1
IsReadMsg(msg) == msg.flags % 2 = 1
\* A transfer past k_sem_take that has left its message loop.
Ended(t) == th[t].pc \in {"give", "done"} /\ th[t].takes = 1

\* C5: once a phase fails (timeout, or NACK of a driven byte) or a message
\* fails validation, transfer issues no further phase, processes no later
\* message, does not retry, and returns that first error; it returns success
\* only if every message completed without error.
C5_FirstErrorEndsTransfer ==
    \A t \in Transfers :
        LET s == th[t] IN
        /\ PhaseFailed(t) =>
              /\ s.pc \in {"give", "done"}
              /\ s.ret = -EIO
              /\ s.i < Len(s.msgs)
              /\ Last(s.log) = Entry(s.i, s.ph.kind, s.ph.head, s.ph.val,
                                     s.ph.ack, s.ph.tail)
        /\ Ended(t) =>
              /\ \A k \in 1..Len(s.log) : s.log[k].m <= s.i
              /\ s.ret <= 0
              /\ s.ret = 0 => s.i = Len(s.msgs) /\ ~PhaseFailed(t)
              /\ s.ret < 0 =>
                    /\ s.i < Len(s.msgs)
                    /\ \/ PhaseFailed(t) /\ s.ret = -EIO
                       \/ /\ s.ret = -EINVAL
                          /\ s.msgs[s.i + 1].len = 0
                          /\ PhasesOf(t, s.i) = <<>>

\* C5 witness: the second payload phase of the first of two messages was
\* NACKed, and transfer ended there with -EIO.
C5_Witness ==
    \E t \in Transfers :
        /\ th[t].pc = "done" /\ th[t].ret = -EIO
        /\ th[t].st.nack /\ th[t].i = 0
        /\ Len(th[t].msgs) = 2 /\ Len(th[t].log) = 2

\* The phase sequence C6 names, for address a, the n bytes of buf written and
\* m bytes read.  The address-read byte goes out with head START after a
\* phase whose tail kept the bus (STALL): a repeated start.
C6_Expected(a, buf, m) ==
    <<Entry(0, "out", I2C_HEAD_START, 2 * a, 1, I2C_TAIL_STALL)>>
    \o [k \in 1..Len(buf) |->
          Entry(0, "out", I2C_HEAD_STALL, buf[k], 1, I2C_TAIL_STALL)]
    \o <<Entry(1, "out", I2C_HEAD_START, 2 * a + 1, 1, I2C_TAIL_STALL)>>
    \o [k \in 1..(m - 1) |->
          Entry(1, "in", I2C_HEAD_STALL, 0, I2C_ACK, I2C_TAIL_STALL)]
    \o <<Entry(1, "in", I2C_HEAD_STALL, 0, I2C_NACK, I2C_TAIL_STOP)>>

\* A write of n >= 1 bytes without release-after, then a read of m >= 1 bytes
\* with release-after.
C6_Shape(ms) ==
    /\ Len(ms) = 2
    /\ ~IsReadMsg(ms[1]) /\ ~HasStop(ms[1]) /\ ms[1].len >= 1
    /\ IsReadMsg(ms[2]) /\ HasStop(ms[2]) /\ ms[2].len >= 1

IsPrefix(p, q) == Len(p) <= Len(q) /\ \A k \in 1..Len(p) : p[k] = q[k]

\* C6: such a transfer, every phase succeeding, issues exactly the sequence
\* address-write (START, STALL); the payload bytes in order (STALL, STALL);
\* address-read as a repeated start; m-1 latches with ACK (tail STALL); one
\* latch with NACK and tail STOP.
C6_WriteThenReadSequence ==
    \A t \in Transfers :
        LET s == th[t]
            exp == C6_Expected(s.addr, s.msgs[1].buf, s.msgs[2].len)
        IN  C6_Shape(s.msgs) =>
               /\ IsPrefix(s.log, exp)
               /\ Ended(t) /\ ~PhaseFailed(t) => s.ret = 0 /\ s.log = exp

\* C6 witness: the spec's scenario, two bytes written and two read, done.
C6_Witness ==
    \E t \in Transfers :
        /\ C6_Shape(th[t].msgs) /\ th[t].pc = "done" /\ th[t].ret = 0
        /\ th[t].msgs[1].len = 2 /\ th[t].msgs[2].len = 2
        /\ th[t].addr = 80
        /\ Len(th[t].log) = 6

\* Message k (from 0) of t's call has returned success.
Completed(t, k) == th[t].pc = "loop" /\ th[t].i = k + 1

\* C7: a valid write message, of any length and at any index, whose phases
\* all succeed issues its last phase with tail STOP if its release-after flag
\* is set and with tail STALL otherwise.
C7_WriteLastTail ==
    \A t \in Transfers :
        \A k \in 0..(Len(th[t].msgs) - 1) :
            Completed(t, k) /\ ~IsReadMsg(th[t].msgs[k + 1]) =>
               /\ Last(th[t].log).m = k
               /\ Last(th[t].log).kind = "out"
               /\ Last(th[t].log).tail =
                     IF HasStop(th[t].msgs[k + 1]) THEN I2C_TAIL_STOP
                     ELSE I2C_TAIL_STALL

\* C7 witness: a write of MaxLen bytes with release-after completed as the
\* second message of a transfer.
C7_Witness ==
    \E t \in Transfers :
        /\ Completed(t, 1)
        /\ ~IsReadMsg(th[t].msgs[2]) /\ HasStop(th[t].msgs[2])
        /\ th[t].msgs[2].len = MaxLen

\* The latch phases message k of t's call has issued.
LatchesOf(t, k) == SelectSeq(th[t].log, LAMBDA e : e.m = k /\ e.kind = "in")

\* C8: a valid read message of n >= 1 bytes whose phases all succeed issues
\* exactly n latch phases, the first n-1 driving ACK and the last NACK.
C8_ReadAckPattern ==
    \A t \in Transfers :
        \A k \in 0..(Len(th[t].msgs) - 1) :
            Completed(t, k) /\ IsReadMsg(th[t].msgs[k + 1]) =>
               LET n == th[t].msgs[k + 1].len
                   L == LatchesOf(t, k)
               IN  /\ n >= 1
                   /\ Len(L) = n
                   /\ \A x \in 1..(n - 1) : L[x].ack = I2C_ACK
                   /\ L[n].ack = I2C_NACK

\* C8 witness: reads of one byte and of MaxLen bytes completed in one call.
C8_Witness ==
    \E t \in Transfers :
        /\ Completed(t, 1)
        /\ IsReadMsg(th[t].msgs[1]) /\ th[t].msgs[1].len = 1
        /\ IsReadMsg(th[t].msgs[2]) /\ th[t].msgs[2].len = MaxLen

\* A zero-length message that is a read, or a write without release-after.
C9_Rejected(msg) == msg.len = 0 /\ (IsReadMsg(msg) \/ ~HasStop(msg))

\* C9: a zero-length write without release-after, and a zero-length read
\* whatever its flags, fails with -EINVAL and issues no bus phase; so a
\* zero-length write is accepted only with release-after set.
C9_ZeroLengthValidation ==
    \A t \in Transfers :
        \A k \in 0..(Len(th[t].msgs) - 1) :
            C9_Rejected(th[t].msgs[k + 1]) =>
               /\ PhasesOf(t, k) = <<>>
               /\ th[t].i <= k
               /\ th[t].i = k /\ th[t].pc \notin {"idle", "take", "loop"}
                     /\ th[t].takes = 1 =>
                        th[t].pc \in {"give", "done"} /\ th[t].ret = -EINVAL

\* C9 witness: a zero-length read with release-after set, second in its
\* transfer, ended the transfer with -EINVAL.
C9_Witness ==
    \E t \in Transfers :
        /\ th[t].pc = "done" /\ th[t].ret = -EINVAL /\ th[t].i = 1
        /\ th[t].msgs[2].len = 0 /\ IsReadMsg(th[t].msgs[2])
        /\ HasStop(th[t].msgs[2])

\* A configure call that got to i2c_atm_set_speed and returned.
SpeedSet(t) ==
    /\ th[t].op = "configure" /\ th[t].pc = "done"
    /\ (th[t].cfg \div I2C_MODE_CONTROLLER) % 2 = 1
\* The frequencies C10 names for the speed classes.
C10_Freq(class) ==
    CASE class = I2C_SPEED_STANDARD -> 100000
      [] class = I2C_SPEED_FAST -> 400000
      [] class = I2C_SPEED_FAST_PLUS -> 1000000
C10_Mapped == {I2C_SPEED_STANDARD, I2C_SPEED_FAST, I2C_SPEED_FAST_PLUS}
C10_Unmapped == {I2C_SPEED_HIGH, I2C_SPEED_ULTRA}

\* C10 as stated: for every reference clock, set_speed of a mapped class
\* writes the number floor(ref_clock / (4 f)) - 1 to the clock divider and
\* returns success; for high and ultra it returns -ENOTSUP and does not
\* write the divider.
C10_DividerIsQuotientLessOne ==
    \A t \in DOMAIN th :
        SpeedSet(t) =>
           /\ th[t].speed \in C10_Mapped =>
                 LET d == (bp \div (4 * C10_Freq(th[t].speed))) - 1 IN
                 /\ th[t].ret = 0 /\ th[t].wroteClk
                 /\ d >= 0 /\ th[t].clkVal = Word(d) /\ clkctl = Word(d)
           /\ th[t].speed \in C10_Unmapped =>
                 th[t].ret = -ENOTSUP /\ ~th[t].wroteClk

\* C10 amended: the divider written is floor(ref_clock / (4 f)) - 1 computed
\* in unsigned 32-bit arithmetic: that number when ref_clock >= 4 f, and
\* 2^32 - 1 when ref_clock < 4 f.
C10_DividerModulo ==
    \A t \in DOMAIN th :
        SpeedSet(t) =>
           /\ th[t].speed \in C10_Mapped =>
                 LET q == bp \div (4 * C10_Freq(th[t].speed))
                     d == IF q >= 1 THEN Word(q - 1)
                          ELSE [hi |-> 65535, lo |-> 65535]
                 IN  /\ th[t].ret = 0 /\ th[t].wroteClk
                     /\ th[t].clkVal = d /\ clkctl = d
           /\ th[t].speed \in C10_Unmapped =>
                 th[t].ret = -ENOTSUP /\ ~th[t].wroteClk

\* C10 witness: fast speed at a 16 MHz reference clock programmed divider 9.
C10_Witness ==
    \E t \in DOMAIN th :
        /\ SpeedSet(t) /\ th[t].speed = I2C_SPEED_FAST /\ bp = 16000000
        /\ th[t].ret = 0 /\ clkctl = Word(9)

\* C11: a transfer called while the controller is configured for 10-bit
\* addressing returns -ENOTSUP at once: the call goes straight to its return
\* without taking the lock, processing a message or touching a register, and
\* a transfer that returns -ENOTSUP has issued no phase.
C11_TenBitFailsFast ==
    /\ [][\A t \in DOMAIN th :
            th[t].pc = "idle" /\ th'[t].op = "transfer"
               /\ BitSet(dconfig, I2C_ADDR_10_BITS) =>
                  /\ th'[t].pc = "done" /\ th'[t].ret = -ENOTSUP
                  /\ th'[t].log = <<>> /\ th'[t].i = 0 /\ th'[t].takes = 0
                  /\ UNCHANGED <<setup, outgoing, clkctl, dconfig, sem>>]_vars
    /\ [](\A t \in Transfers :
            th[t].pc = "done" /\ th[t].ret = -ENOTSUP =>
               th[t].log = <<>> /\ th[t].takes = 0 /\ th[t].i = 0)

\* C11 witness: a transfer of two messages returned -ENOTSUP under a 10-bit
\* configuration.
C11_Witness ==
    \E t \in Transfers :
        /\ th[t].pc = "done" /\ th[t].ret = -ENOTSUP
        /\ BitSet(dconfig, I2C_ADDR_10_BITS)
        /\ Len(th[t].msgs) = 2 /\ th[t].log = <<>>

\* The threads in a call of configure; a word without the controller bit.
Configures == {t \in DOMAIN th : th[t].op = "configure"}
NotController(cfg) == (cfg \div I2C_MODE_CONTROLLER) % 2 = 0

\* C12: configure with a word that does not request controller mode returns
\* -ENOTSUP and has no effect: the call goes straight to its return leaving
\* the stored configuration, the clock divider and every other register as
\* they were, and it has neither called the pin set-up nor written the
\* divider when it returns.
C12_NonControllerNoEffect ==
    /\ [][\A t \in DOMAIN th :
            th[t].pc = "idle" /\ th'[t].op = "configure"
               /\ NotController(th'[t].cfg) =>
                  /\ th'[t].pc = "done" /\ th'[t].ret = -ENOTSUP
                  /\ ~th'[t].pinned /\ ~th'[t].wroteClk
                  /\ UNCHANGED <<dconfig, clkctl, setup, outgoing, sem>>]_vars
    /\ [](\A t \in Configures :
            NotController(th[t].cfg) =>
               /\ th[t].pc = "done" /\ th[t].ret = -ENOTSUP
               /\ ~th[t].pinned /\ ~th[t].wroteClk)

\* C12 witness: a peripheral-mode word at fast speed with the 10-bit flag was
\* rejected while the stored word is the controller-mode one of before.
C12_Witness ==
    \E t \in Configures :
        /\ th[t].pc = "done" /\ th[t].ret = -ENOTSUP
        /\ th[t].cfg = 2 * I2C_SPEED_FAST + I2C_ADDR_10_BITS
        /\ dconfig = InitCfg /\ ~th[t].pinned

\* Entry x of t's log is the first phase of its message.
FirstOfMsg(t, x) == x = 1 \/ th[t].log[x - 1].m # th[t].log[x].m
\* The message entry x of t's log belongs to.
MsgOf(t, x) == th[t].msgs[th[t].log[x].m + 1]

\* C13 as stated: only the first message of a transfer issues a phase with
\* head START; a later message that follows one without release-after
\* continues the open bus, after a tail RESTART when its direction differs
\* from the previous message's and with head STALL after tail STALL
\* otherwise.
C13_OnlyFirstMessageStarts ==
    \A t \in Transfers :
        \A x \in 1..Len(th[t].log) :
            LET e == th[t].log[x] IN
            /\ e.head = I2C_HEAD_START => e.m = 0
            /\ x > 1 /\ FirstOfMsg(t, x) /\ ~HasStop(MsgOf(t, x - 1)) =>
                  IF IsReadMsg(MsgOf(t, x)) # IsReadMsg(MsgOf(t, x - 1))
                  THEN th[t].log[x - 1].tail = I2C_TAIL_RESTART
                  ELSE /\ th[t].log[x - 1].tail = I2C_TAIL_STALL
                       /\ e.head = I2C_HEAD_STALL

\* C13 amended: a phase has head START exactly when it is the address phase
\* of a message, and the messages that have one are the first message and
\* every read message at any index (the byte is the address with the
\* message's direction bit); a write message after the first sends no address
\* byte, its first phase carrying buf[0] with head STALL whatever the
\* previous message was; tail RESTART is issued exactly by the last latch of
\* a read message without release-after.
C13_StartOnlyInAddressPhases ==
    \A t \in Transfers :
        \A x \in 1..Len(th[t].log) :
            LET e == th[t].log[x]
                msg == MsgOf(t, x)
                addressed == FirstOfMsg(t, x) /\ (e.m = 0 \/ IsReadMsg(msg))
            IN
            /\ e.head = I2C_HEAD_START <=> addressed
            /\ addressed =>
                  /\ e.kind = "out"
                  /\ e.val = AddrByte(th[t].addr,
                                      IF IsReadMsg(msg) THEN I2C_READ ELSE I2C_WRITE)
            /\ FirstOfMsg(t, x) /\ ~addressed /\ msg.len >= 1 =>
                  e.kind = "out" /\ e.val = msg.buf[1]
            /\ e.tail = I2C_TAIL_RESTART <=>
                  e.kind = "in" /\ e.ack = I2C_NACK /\ ~HasStop(msg)

\* C13 witness: a transfer of a read without release-after and then a write
\* succeeded; the write issued its bytes with no address phase.
C13_Witness ==
    \E t \in Transfers :
        /\ th[t].pc = "done" /\ th[t].ret = 0 /\ Len(th[t].msgs) = 2
        /\ IsReadMsg(th[t].msgs[1]) /\ ~HasStop(th[t].msgs[1])
        /\ ~IsReadMsg(th[t].msgs[2]) /\ th[t].msgs[2].len = MaxLen
        /\ Len(PhasesOf(t, 1)) = MaxLen

\* Every message of the list passes the validation of its sequencer.
AllValid(ms) == \A k \in 1..Len(ms) : ~C9_Rejected(ms[k])

\* C14: in a transfer of valid messages, every phase issued with head STALL
\* is issued while the bus is open: an earlier phase of the transfer had head
\* START, and no phase from the latest such one on had tail STOP.
C14_StallHeadOnOpenBus ==
    \A t \in Transfers :
        AllValid(th[t].msgs) =>
           \A x \in 1..Len(th[t].log) :
               th[t].log[x].head = I2C_HEAD_STALL =>
                  \E y \in 1..(x - 1) :
                      /\ th[t].log[y].head = I2C_HEAD_START
                      /\ \A z \in y..(x - 1) :
                             th[t].log[z].tail # I2C_TAIL_STOP

\* The case C14 fails on: two writes of one byte, the first with release-after;
\* the second message's byte went out with head STALL after the tail STOP.
C14_StallAfterStop ==
    \E t \in Transfers :
        /\ Len(th[t].msgs) = 2 /\ Len(th[t].log) = 3
        /\ \A k \in 1..2 : ~IsReadMsg(th[t].msgs[k]) /\ th[t].msgs[k].len = 1
        /\ th[t].log[2].tail = I2C_TAIL_STOP
        /\ th[t].log[3].m = 1 /\ th[t].log[3].head = I2C_HEAD_STALL

\* The phases C15 names for write message msg at index k of a transfer to
\* address a: the address phase if k = 0, then one phase per byte of buf.
C15_Expected(a, msg, k) ==
    (IF k = 0
     THEN <<Entry(0, "out", I2C_HEAD_START, 2 * a, 1,
                  IF msg.len = 0 THEN I2C_TAIL_STOP ELSE I2C_TAIL_STALL)>>
     ELSE <<>>)
    \o [x \in 1..msg.len |->
          Entry(k, "out", I2C_HEAD_STALL, msg.buf[x], 1,
                IF x = msg.len /\ HasStop(msg) THEN I2C_TAIL_STOP
                ELSE I2C_TAIL_STALL)]
\* Message k of t's call is a write that passes validation, of a kind in lens.
C15_Accepted(t, k, lens) ==
    /\ k < Len(th[t].msgs)
    /\ ~IsReadMsg(th[t].msgs[k + 1]) /\ ~WriteInvalid(th[t].msgs[k + 1])
    /\ th[t].msgs[k + 1].len \in lens

\* The property of C15 for the accepted writes whose length is in lens: the
\* phases issued are always a prefix of the expected ones (so no byte outside
\* buf[0..n-1] is read), and all of them once the message has succeeded.
C15_For(lens) ==
    \A t \in Transfers :
        \A k \in 0..(Len(th[t].msgs) - 1) :
            C15_Accepted(t, k, lens) =>
               LET exp == C15_Expected(th[t].addr, th[t].msgs[k + 1], k) IN
               /\ IsPrefix(PhasesOf(t, k), exp)
               /\ th[t].i = k => th[t].pc # "fault"
               /\ Completed(t, k) => PhasesOf(t, k) = exp

\* C15: an accepted write message of length n whose phases all succeed
\* issues exactly n payload phases carrying buf[0..n-1] in order, preceded by
\* one address phase if and only if it is the first message; an accepted
\* zero-length write issues no payload phase and reads no buffer byte at any
\* message index, and alone in its transfer issues the one phase START
\* address byte, tail STOP, and returns success.
C15_WritePayloadPhases ==
    /\ C15_For(0..MaxLen)
    /\ \A t \in Transfers :
          Len(th[t].msgs) = 1 /\ C15_Accepted(t, 0, {0}) /\ Ended(t)
             /\ ~PhaseFailed(t) =>
                th[t].ret = 0 /\ Len(th[t].log) = 1

\* The part of C15 that holds: writes of one byte or more at any index, and
\* the zero-length write as first message.
C15_NonEmptyWrites ==
    /\ C15_For(1..MaxLen)
    /\ \A t \in Transfers :
          C15_Accepted(t, 0, {0}) =>
             /\ IsPrefix(PhasesOf(t, 0), C15_Expected(th[t].addr, th[t].msgs[1], 0))
             /\ Completed(t, 0) => Len(PhasesOf(t, 0)) = 1
\* The case C15 fails on: an accepted zero-length write, second in its
\* transfer, has issued a payload phase.
C15_ZeroLengthSecondLoops ==
    \E t \in Transfers :
        /\ C15_Accepted(t, 1, {0}) /\ Len(PhasesOf(t, 1)) > 1

\* C16: at most one operation is outstanding on the transaction unit.  GO
\* is set exactly while one phase operation is between its "Assert GO" and
\* its return: a phase operation about to assert GO finds it clear, at most
\* one caller is inside a phase operation, and one that has returned, on
\* completion, NACK or timeout, has left the setup register with GO = 0.
C16_OneOperationOutstanding ==
    /\ \A t \in DOMAIN th : th[t].pc = "go" => setup.go = 0
    /\ \A t, u \in DOMAIN th :
          th[t].pc \in {"go", "poll"} /\ th[u].pc \in {"go", "poll"} => t = u
    /\ setup.go = 1 <=> \E t \in DOMAIN th : th[t].pc = "poll"
    /\ \A t \in Transfers :
          th[t].pc \in {"loop", "give"} /\ th[t].log # <<>> =>
             /\ setup.go = 0
             /\ th[t].timedOut => setup = SetupZero
             /\ th[t].st.done => setup = SetupDeassert

\* C16 witness: a latch phase timed out and returned with GO clear while a
\* second caller waits its turn, after an earlier phase of the same transfer
\* had completed and the GO of this one had been asserted on a clear register.
C16_Witness ==
    \E t, u \in DOMAIN th :
        /\ th[t].pc = "give" /\ th[t].timedOut /\ Len(th[t].log) >= 2
        /\ setup.go = 0 /\ th[u].pc = "take"

\* C17: every latch phase of a read message is issued with head STALL (and
\* so programmed in the setup register); every latch but the last has tail
\* STALL, and the last has tail STOP if the message's release-after flag is
\* set and tail RESTART otherwise.
C17_LatchFraming ==
    \A t \in Transfers :
        /\ th[t].pc = "poll" /\ th[t].ph.kind = "in" =>
              setup.head = I2C_HEAD_STALL /\ setup.tail = Last(th[t].log).tail
        /\ \A k \in 0..(Len(th[t].msgs) - 1) :
              LET msg == th[t].msgs[k + 1]
                  L == LatchesOf(t, k)
              IN  /\ L # <<>> => IsReadMsg(msg) /\ Len(L) <= msg.len
                  /\ \A x \in 1..Len(L) :
                        /\ L[x].head = I2C_HEAD_STALL
                        /\ x < msg.len => L[x].tail = I2C_TAIL_STALL
                        /\ x = msg.len =>
                              L[x].tail = IF HasStop(msg) THEN I2C_TAIL_STOP
                                          ELSE I2C_TAIL_RESTART

\* C17 witness: a read of MaxLen bytes without release-after, first of two
\* messages, completed; its last latch had tail RESTART.
C17_Witness ==
    \E t \in Transfers :
        /\ Completed(t, 0) /\ Len(th[t].msgs) = 2
        /\ IsReadMsg(th[t].msgs[1]) /\ ~HasStop(th[t].msgs[1])
        /\ th[t].msgs[1].len = MaxLen
        /\ Len(LatchesOf(t, 0)) = MaxLen
        /\ Last(th[t].log).tail = I2C_TAIL_RESTART

\* The bytes i2c_in_sync returned to message k of t's call, in order.
LatchedOf(t, k) == SelectSeq(th[t].rx, LAMBDA e : e.m = k)

\* C18: for a read message of length n, at every moment buf[0..c-1] hold the
\* c bytes latched so far and buf[c..n-1] are as the caller passed them.  So
\* on success buf holds the n latched bytes; if the latch of byte c fails,
\* buf[0..c-1] hold the first c latched bytes and the rest is unchanged; if
\* validation or the address phase fails, the whole buffer is unchanged.
C18_ReadBufferFrame ==
    \A t \in Transfers :
        \A k \in 0..(Len(th[t].msgs) - 1) :
            LET msg == th[t].msgs[k + 1]
                R == LatchedOf(t, k)
            IN  IsReadMsg(msg) =>
                   /\ Len(R) <= msg.len
                   /\ \A x \in 1..msg.len :
                         msg.buf[x] = IF x <= Len(R) THEN R[x].val
                                      ELSE ReadBuf(msg.len)[x]
                   /\ Completed(t, k) => Len(R) = msg.len
                   /\ Ended(t) /\ th[t].i = k /\ th[t].ret < 0 =>
                         /\ Len(R) < msg.len \/ msg.len = 0
                         /\ Len(R) = Len(LatchesOf(t, k)) - 1
                               \/ (R = <<>> /\ LatchesOf(t, k) = <<>>)

\* C18 witness: in a read of two bytes, second message of its transfer, the
\* latch of byte 1 timed out: buf[0] holds the byte latched, buf[1] the value
\* it had.
C18_Witness ==
    \E t \in Transfers :
        /\ th[t].pc = "done" /\ th[t].ret = -EIO /\ th[t].i = 1
        /\ IsReadMsg(th[t].msgs[2]) /\ th[t].msgs[2].len = 2
        /\ th[t].timedOut /\ Len(LatchesOf(t, 1)) = 2
        /\ th[t].msgs[2].buf = <<165, 238>>

\* Thread u's step stores data->config (configure past its mode check) or
\* writes CLOCK_CONTROL (set_speed of a mapped speed).
WritesControllerState(u) ==
    \/ th[u].pc = "idle" /\ th'[u].pc = "speed"
    \/ th[u].pc = "speed" /\ th'[u].wroteClk

\* C19: while a transfer holds the exclusion lock, between k_sem_take and
\* k_sem_give, no step of a configure or set_speed call stores the
\* configuration word or writes the clock divider: both stay as they are.
C19_NoConfigureWhileLocked ==
    [][(\E t \in DOMAIN th : InCS(t)) =>
          /\ UNCHANGED <<dconfig, clkctl>>
          /\ \A u \in DOMAIN th : ~WritesControllerState(u)]_vars

\* The case C19 fails on: a transfer is polling a phase, and the stored
\* word has become the 10-bit one a configure call of the other caller
\* wrote since the transfer passed its 10-bit check.
C19_ConfiguredUnderTransfer ==
    \E t, u \in DOMAIN th :
        /\ th[t].op = "transfer" /\ th[t].pc = "poll"
        /\ th[u].op = "configure" /\ th[u].pc = "done" /\ th[u].wroteClk
        /\ dconfig = th[u].cfg /\ BitSet(dconfig, I2C_ADDR_10_BITS)

\* A configure call that asked for controller mode and got -ENOTSUP from
\* i2c_atm_set_speed for a speed class whose table entry is 0.
C20_SpeedRejected(t) ==
    /\ th[t].op = "configure" /\ th[t].pc = "done"
    /\ ~NotController(th[t].cfg) /\ th[t].speed <= I2C_SPEED_ULTRA
    /\ th[t].ret = -ENOTSUP

\* C20: a configure call that requests controller mode and fails with
\* -ENOTSUP for its unmapped speed class leaves the stored configuration
\* word and the clock divider as they were before the call.
C20_FailedConfigureNoEffect ==
    \A t \in DOMAIN th :
        C20_SpeedRejected(t) =>
           /\ ~th[t].wroteClk /\ clkctl = th[t].was.clk
           /\ dconfig = th[t].was.config

\* The part of C20 that holds: the clock divider is not written.
C20_DividerUnchanged ==
    \A t \in DOMAIN th :
        C20_SpeedRejected(t) => ~th[t].wroteClk /\ clkctl = th[t].was.clk

\* The case C20 fails on: a rejected call for high speed with the 10-bit
\* flag has left its word stored in place of a 7-bit one.
C20_RejectedWordStored ==
    \E t \in DOMAIN th :
        /\ C20_SpeedRejected(t) /\ th[t].speed = I2C_SPEED_HIGH
        /\ dconfig = th[t].cfg /\ BitSet(dconfig, I2C_ADDR_10_BITS)
        /\ ~BitSet(th[t].was.config, I2C_ADDR_10_BITS)

====
